---- MODULE Spec2Model ----
(***************************************************************************)
(* A model of movie_bot.py: a Telegram bot that relays requests to the     *)
(* TMDB API.  The state is the per-user `esperando_busqueda` flag, the     *)
(* process-wide GENRE_MAP, the job queue's load_genres job and the handler *)
(* invocations in flight, each with its position (pc) and the ordered log  *)
(* of the Telegram / TMDB calls it has made.  Handlers are split into      *)
(* steps at their awaits.                                                  *)
(***************************************************************************)
EXTENDS Integers, Sequences, FiniteSets, TLC

VARIABLES
    user_data,   \* per user: context.user_data['esperando_busqueda']
    GENRE_MAP,   \* the global genre id -> name mapping
    job,         \* the load_genres job: none, scheduled, loaded, failed
    tasks,       \* the handler invocations
    searches,    \* history, per user: conversational searches started
                 \* since the last solicitar_busqueda (saturating)
    today,       \* datetime.today()
    pure_pc,     \* position of the pure-function specifications
    esc_in, esc_out,     \* escape_markdown_v2: argument and result
    date_in, date_out    \* the 'estrenos_mes' range: today and the params

vars == <<user_data, GENRE_MAP, job, tasks, searches, today,
          pure_pc, esc_in, esc_out, date_in, date_out>>

botvars == <<user_data, GENRE_MAP, job, tasks, searches, today>>
purevars == <<pure_pc, esc_in, esc_out, date_in, date_out>>

(***************************************************************************)
(* Bounds of the model.                                                    *)
(***************************************************************************)
MaxUsers == 2
MaxTasks == 2
MaxResults == 6
MaxGenres == 2
MaxLen == 3

Users == 1..MaxUsers
TaskIds == 1..MaxTasks

(***************************************************************************)
(* escape_markdown_v2 (lines 46-48).  A string is a sequence of one-       *)
(* character strings; the backquote, which a TLA+ string cannot hold, is   *)
(* written "backquote".                                                    *)
(***************************************************************************)
escape_chars ==
    {"_", "*", "[", "]", "(", ")", "~", "backquote", ">", "#", "+", "-", "=", "|",
     "{", "}", ".", "!"}

EscapeOneNoDot(char) ==
    IF char \in (escape_chars \ {"."}) THEN <<"\\", char>> ELSE <<char>>

EscapeOne(char) ==
    IF char \in escape_chars THEN <<"\\", char>> ELSE <<char>>

RECURSIVE escape_markdown_v2(_)
escape_markdown_v2(text) ==
    IF text = <<>> THEN <<>>
    ELSE EscapeOne(Head(text)) \o escape_markdown_v2(Tail(text))

(***************************************************************************)
(* datetime arithmetic used by handle_estrenos_callback (lines 223-244).   *)
(* A date is a record [year, month, day]; timedelta addition steps a day   *)
(* at a time over the Gregorian calendar.                                  *)
(***************************************************************************)
IsLeap(y) == (y % 4 = 0 /\ y % 100 # 0) \/ y % 400 = 0

DaysInMonth(y, m) ==
    IF m = 2 THEN (IF IsLeap(y) THEN 29 ELSE 28)
    ELSE IF m \in {4, 6, 9, 11} THEN 30 ELSE 31

NextDay(d) ==
    IF d.day < DaysInMonth(d.year, d.month)
    THEN [d EXCEPT !.day = @ + 1]
    ELSE IF d.month < 12
         THEN [year |-> d.year, month |-> d.month + 1, day |-> 1]
         ELSE [year |-> d.year + 1, month |-> 1, day |-> 1]

PrevDay(d) ==
    IF d.day > 1
    THEN [d EXCEPT !.day = @ - 1]
    ELSE IF d.month > 1
         THEN [year |-> d.year, month |-> d.month - 1,
               day |-> DaysInMonth(d.year, d.month - 1)]
         ELSE [year |-> d.year - 1, month |-> 12, day |-> 31]

\* date + timedelta(days=n) for n >= 0, date - timedelta(days=-n) for n < 0
RECURSIVE PlusDays(_, _)
PlusDays(d, n) ==
    IF n = 0 THEN d
    ELSE IF n > 0 THEN PlusDays(NextDay(d), n - 1)
    ELSE PlusDays(PrevDay(d), n + 1)

\* date.replace(day=n); n is 1 or 28 in the source, a day of every month
replace_day(d, n) == [d EXCEPT !.day = n]

Digit(n) == <<"0", "1", "2", "3", "4", "5", "6", "7", "8", "9">>[n + 1]

TwoDigits(n) == Digit((n \div 10) % 10) \o Digit(n % 10)

\* strftime('%Y-%m-%d')
strftime(d) ==
    TwoDigits(d.year \div 100) \o TwoDigits(d.year % 100) \o "-"
        \o TwoDigits(d.month) \o "-" \o TwoDigits(d.day)

first_day_of_month(t) == strftime(replace_day(t, 1))

next_month_first_day_short(t) == replace_day(PlusDays(replace_day(t, 28), 3), 1)

next_month_first_day(t) == replace_day(PlusDays(replace_day(t, 28), 4), 1)

last_day_of_month(t) == strftime(PlusDays(next_month_first_day(t), -1))

\* the params of the 'estrenos_mes' branch (lines 230-235); a key the dict
\* does not hold is "" (a string), 0 (a number) or <<>> (with_genres)
estrenos_mes_params(t) ==
    [primary_release_year |-> 0,
     gte |-> first_day_of_month(t), lte |-> last_day_of_month(t),
     sort_by |-> "popularity.desc", region |-> "ES",
     query |-> "", vote_count_gte |-> 0, with_genres |-> <<>>]

\* the params of the 'estrenos_ano' branch (lines 238-243)
estrenos_ano_params(t) ==
    [primary_release_year |-> t.year,
     gte |-> strftime(t), lte |-> "",
     sort_by |-> "primary_release_date.asc", region |-> "ES",
     query |-> "", vote_count_gte |-> 0, with_genres |-> <<>>]

NoParams ==
    [primary_release_year |-> 0, gte |-> "", lte |-> "", sort_by |-> "",
     region |-> "", query |-> "", vote_count_gte |-> 0, with_genres |-> <<>>]

\* params={'vote_count.gte': 1000} (line 154)
top_rated_params == [NoParams EXCEPT !.vote_count_gte = 1000]

\* params={'query': query} (line 189)
search_params(query) == [NoParams EXCEPT !.query = query]

\* the params of the recommendation (lines 301-305)
recom_params(genre_id) ==
    [NoParams EXCEPT !.with_genres = <<genre_id>>, !.sort_by = "popularity.desc",
                     !.vote_count_gte = 100]

(***************************************************************************)
(* fetch_tmdb_data (lines 31-44).  What the transport does is an input:    *)
(* an exception raised by requests.get, raise_for_status or                *)
(* response.json, or a decoded JSON object.  A JSON object is             *)
(* [keys, list]: its key set and the list under its 'results' / 'genres'   *)
(* key (<<>> when it has neither).                                         *)
(***************************************************************************)
EmptyDict == [keys |-> {}, list |-> <<>>]

\* requests.get times out or cannot connect; raise_for_status on a non-2xx
\* status; response.json on a malformed body
TransportFailures == {"Timeout", "ConnectionError", "HTTPError", "JSONDecodeError"}

\* the subclasses of requests.exceptions.RequestException among them,
\* without and with the JSON decoding error
RequestExceptionNoJSON == {"Timeout", "ConnectionError", "HTTPError"}

RequestException == {"Timeout", "ConnectionError", "HTTPError", "JSONDecodeError"}

\* the first n movie ids of the catalogue, in the order the API lists them
FirstN(n) == [i \in 1..n |-> i]

\* bodies of a 2xx answer: an object without the list key, or with a list
\* of 0..max entries
Bodies(key, max) ==
    {[keys |-> {"status_message"}, list |-> <<>>]}
        \cup {[keys |-> {key}, list |-> FirstN(n)] : n \in 0..max}

Outcomes(key, max) ==
    {[exc |-> e, body |-> EmptyDict] : e \in TransportFailures}
        \cup {[exc |-> "none", body |-> b] : b \in Bodies(key, max)}

\* the return value, what is logged and what propagates to the caller
fetch_tmdb_data(o) ==
    IF o.exc = "none"
    THEN [raised |-> "none", logged |-> FALSE, data |-> o.body]
    ELSE IF o.exc \in RequestException
         THEN [raised |-> "none", logged |-> TRUE, data |-> EmptyDict]
         ELSE [raised |-> o.exc, logged |-> FALSE, data |-> EmptyDict]

\* `data and data.get(key)`: the list when both are truthy, else <<>>
Truthy(data) == data.keys # {}

Get(data, key) == IF key \in data.keys THEN data.list ELSE <<>>

DataAndGet(data, key) == IF Truthy(data) THEN Get(data, key) ELSE <<>>

\* movie.get('poster_path') is truthy: an input of the catalogue, here the
\* movies with an odd id
HasPoster(m) == m % 2 = 1

(***************************************************************************)
(* The log of a handler invocation: the calls it made, in order.           *)
(***************************************************************************)
Ev(e) == [ev |-> e, id |-> 0]

MEv(e, m) == [ev |-> e, id |-> m]

Positions(log, E) == {i \in DOMAIN log : log[i].ev \in E}

Count(log, E) == Cardinality(Positions(log, E))

IsMovieMsg(e) == e.ev \in {"send_photo", "send_message"}

\* the movies delivered, in the order of delivery
Delivered(log) ==
    LET sel == SelectSeq(log, IsMovieMsg)
    IN  [i \in DOMAIN sel |-> sel[i].id]

FallbackEvents == {"reply_fallback", "bot_send_fallback"}

(***************************************************************************)
(* Callback payloads (query.data) are sequences of one-character strings.  *)
(***************************************************************************)
PrefixEstrenos == <<"e", "s", "t", "r", "e", "n", "o", "s", "_">>

PrefixRecom == <<"r", "e", "c", "o", "m", "_", "g", "e", "n", "e", "r", "o", "_">>

estrenos_mes == PrefixEstrenos \o <<"m", "e", "s">>

estrenos_ano == PrefixEstrenos \o <<"a", "n", "o">>

\* re.match of a pattern '^<prefix>'
StartsWith(s, p) == Len(s) >= Len(p) /\ SubSeq(s, 1, Len(p)) = p

\* query.data.split('_')[-1]: the text after the last underscore
LastField(s) ==
    LET us == {i \in DOMAIN s : s[i] = "_"}
        last == IF us = {} THEN 0 ELSE CHOOSE i \in us : \A j \in us : j <= i
    IN  SubSeq(s, last + 1, Len(s))

\* int(text): optional surrounding blanks, an optional sign, then digits
Digits == {"0", "1", "2", "3", "4", "5", "6", "7", "8", "9"}

Strip(s) ==
    LET keep == {i \in DOMAIN s : s[i] # " "}
    IN  IF keep = {} THEN <<>>
        ELSE SubSeq(s, CHOOSE i \in keep : \A j \in keep : i <= j,
                       CHOOSE i \in keep : \A j \in keep : j <= i)

Unsigned(s) == IF s # <<>> /\ Head(s) \in {"+", "-"} THEN Tail(s) ELSE s

IntParsesAnything(s) == TRUE

IntParses(s) ==
    LET b == Unsigned(Strip(s))
    IN  b # <<>> /\ \A i \in DOMAIN b : b[i] \in Digits

DigitValue(c) == CHOOSE n \in 0..9 : Digit(n) = c

RECURSIVE Magnitude(_)
Magnitude(b) ==
    IF b = <<>> THEN 0
    ELSE 10 * Magnitude(SubSeq(b, 1, Len(b) - 1)) + DigitValue(b[Len(b)])

\* the value of int(s) where it parses; where it raises ValueError, the
\* value is never used
IntValue(s) ==
    LET t == Strip(s)
        b == Unsigned(t)
        usable == \A i \in DOMAIN b : b[i] \in Digits
    IN  IF ~usable THEN 0
        ELSE IF t # <<>> /\ Head(t) = "-" THEN 0 - Magnitude(b)
        ELSE Magnitude(b)

(***************************************************************************)
(* The updates the transport delivers, and the handler table of main       *)
(* (lines 335-349): within the one handler group the first handler whose   *)
(* filter matches handles the update, the others do not see it.            *)
(* The emoji of the keyboard labels are left out of the label strings.     *)
(***************************************************************************)
Command(name, args) == [type |-> "command", text |-> name, args |-> args, data |-> <<>>]

Text(s) == [type |-> "text", text |-> s, args |-> <<>>, data |-> <<>>]

Callback(d) == [type |-> "callback", text |-> "", args |-> <<>>, data |-> d]

RecomSuffixes ==
    {<<"1">>, <<"2">>, <<"7">>, <<"-", "1">>, <<>>, <<"a">>, <<"1", "a">>,
     <<"x", "_">>, <<"_", "2">>}

Updates ==
    {Command(c, <<>>) : c \in {"start", "ayuda", "buscar", "cerrar_teclado", "otro"}}
        \cup {Command("buscar", <<"Blade", "Runner">>)}
        \cup {Text(s) : s \in {"Populares", "Mejor Valoradas", "Estrenos",
                               "Recomendar Pelicula", "Buscar Pelicula (texto)",
                               "Matrix", "Dune"}}
        \cup {Callback(d) : d \in {estrenos_mes, estrenos_ano,
                                   PrefixEstrenos \o <<"x">>}}
        \cup {Callback(PrefixRecom \o s) : s \in RecomSuffixes}

HandlerTable ==
    <<"start", "ayuda", "buscar_pelicula_command", "cerrar_teclado",
      "populares_handler", "mejor_valoradas_handler", "estrenos_menu_handler",
      "recomendar_menu_genero_handler", "solicitar_busqueda",
      "buscar_pelicula_message_handler",
      "handle_estrenos_callback", "handle_recomendar_callback">>

Matches(h, upd) ==
    CASE h = "start" -> upd.type = "command" /\ upd.text = "start"
      [] h = "ayuda" -> upd.type = "command" /\ upd.text = "ayuda"
      [] h = "buscar_pelicula_command" -> upd.type = "command" /\ upd.text = "buscar"
      [] h = "cerrar_teclado" -> upd.type = "command" /\ upd.text = "cerrar_teclado"
      [] h = "populares_handler" -> upd.type = "text" /\ upd.text = "Populares"
      [] h = "mejor_valoradas_handler" -> upd.type = "text" /\ upd.text = "Mejor Valoradas"
      [] h = "estrenos_menu_handler" -> upd.type = "text" /\ upd.text = "Estrenos"
      [] h = "recomendar_menu_genero_handler" ->
             upd.type = "text" /\ upd.text = "Recomendar Pelicula"
      [] h = "solicitar_busqueda" ->
             upd.type = "text" /\ upd.text = "Buscar Pelicula (texto)"
      [] h = "buscar_pelicula_message_handler" -> upd.type = "text"
      [] h = "handle_estrenos_callback" ->
             upd.type = "callback" /\ StartsWith(upd.data, PrefixEstrenos)
      [] h = "handle_recomendar_callback" ->
             upd.type = "callback" /\ StartsWith(upd.data, PrefixRecom)

SelectHandler(upd) ==
    LET m == {i \in DOMAIN HandlerTable : Matches(HandlerTable[i], upd)}
    IN  IF m = {} THEN "none"
        ELSE HandlerTable[CHOOSE i \in m : \A j \in m : i <= j]

\* " ".join(context.args)
RECURSIVE Join(_)
Join(args) ==
    IF args = <<>> THEN ""
    ELSE IF Len(args) = 1 THEN args[1]
    ELSE args[1] \o " " \o Join(Tail(args))

\* Application.builder()...build() (line 325) leaves concurrent_updates at
\* its default: updates are processed one after the other, an update is
\* taken up when the handler of the one before it has returned.
concurrent_updates_on == TRUE

concurrent_updates == FALSE

(***************************************************************************)
(* A handler invocation.                                                   *)
(***************************************************************************)
IdleTask ==
    [h |-> "none", u |-> 0, pc |-> "idle", text |-> "", args |-> <<>>,
     q |-> "", cb |-> <<>>,
     genre_id |-> 0, endpoint |-> "", params |-> NoParams,
     outcome |-> "none", data |-> EmptyDict, todo |-> <<>>, log |-> <<>>]

Free(t) == tasks[t].pc = "idle"

CallbackHandlers == {"handle_estrenos_callback", "handle_recomendar_callback"}

\* what a handler hands to send_movie_with_poster and reads effective_chat
\* of: the Update (lines 146, 160, 196) or the CallbackQuery
\* (lines 254-258, 314, 317)
UpdateOrQuery(h) == IF h \in CallbackHandlers THEN "CallbackQuery" ELSE "Update"

\* effective_chat is a property of telegram.Update; a CallbackQuery has
\* none, reading it raises AttributeError
HasEffectiveChat(obj) == obj = "Update"

GenreName(i) == "genero" \o Digit(i)

BotInit ==
    /\ user_data = [u \in Users |-> "absent"]
    /\ GENRE_MAP = <<>>
    /\ job \in {"scheduled", "none"}
    /\ tasks = [t \in TaskIds |-> IdleTask]
    /\ searches = [u \in Users |-> 0]
    /\ today = [year |-> 2024, month |-> 2, day |-> 15]

PureIdle ==
    /\ pure_pc = "idle"
    /\ esc_in = <<>>
    /\ esc_out = <<>>
    /\ date_in = [year |-> 2024, month |-> 2, day |-> 15]
    /\ date_out = NoParams

Init == BotInit /\ PureIdle

(***************************************************************************)
(* Steps shared by the handlers.                                           *)
(***************************************************************************)
Set(t, r) == tasks' = [tasks EXCEPT ![t] = r]

Min(a, b) == IF a < b THEN a ELSE b

\* the slices [:5] (lines 145, 159, 255) and [:3] (line 195), the
\* keyboard's [:12] (line 268) and its row length (line 272)
ListLimit == 5
SearchLimit == 3
GenreLimit == 12
RowLength == 2

\* the saturation point of the history counter `searches`
SearchCap == 2

FirstK(list, k) == SubSeq(list, 1, Min(k, Len(list)))

\* an exception leaves the handler: the dispatcher logs it, the invocation
\* is over
Raised(task) == [task EXCEPT !.pc = "done", !.log = @ \o <<Ev("raise")>>]

\* data = await fetch_tmdb_data(endpoint, params), then on to `next`
Fetched(task, endpoint, params, o, next) ==
    LET r == fetch_tmdb_data(o)
        called == [task EXCEPT !.endpoint = endpoint, !.params = params,
                               !.outcome = o.exc,
                               !.log = @ \o <<Ev("fetch")>>]
    IN  IF r.raised # "none" THEN Raised(called)
        ELSE [called EXCEPT !.data = r.data, !.pc = next,
                            !.log = @ \o (IF r.logged THEN <<Ev("log_error")>>
                                          ELSE <<>>)]

\* await processing_msg.delete() after the fetch (lines 141, 155, 190)
ThenDeleted(task) ==
    IF task.pc = "done" THEN task
    ELSE [task EXCEPT !.log = @ \o <<Ev("delete_processing")>>]

\* lines 143-148, 157-162, 192-199: the header and the first k movies, or
\* the fallback; `back` is where the handler goes on after it
Shown(task, k, back) ==
    LET list == DataAndGet(task.data, "results")
    IN  IF list # <<>>
        THEN [task EXCEPT !.log = @ \o <<Ev("reply_header")>>,
                          !.todo = FirstK(list, k), !.pc = "send_movie"]
        ELSE [task EXCEPT !.log = @ \o <<Ev("reply_fallback")>>, !.pc = back]

\* line 175 is what follows _do_search_movie in the text handler
ReturnPc(h) == IF h = "buscar_pelicula_message_handler" THEN "clear" ELSE "done"

(***************************************************************************)
(* load_genres (lines 91-98), the job main schedules at line 328.  It has  *)
(* no await that suspends: it runs as one step.                            *)
(***************************************************************************)
GenresFrom(list) == [i \in {list[j] : j \in DOMAIN list} |-> GenreName(i)]

LoadGenres ==
    /\ job = "scheduled"
    /\ \E o \in Outcomes("genres", MaxGenres) :
         LET r == fetch_tmdb_data(o)
             list == DataAndGet(r.data, "genres")
         IN  IF r.raised = "none" /\ list # <<>>
             THEN GENRE_MAP' = GenresFrom(list) /\ job' = "loaded"
             ELSE GENRE_MAP' = GENRE_MAP /\ job' = "failed"
    /\ UNCHANGED <<user_data, tasks, searches, today, purevars>>

(***************************************************************************)
(* Application.process_update, driven by run_polling (line 352): the       *)
(* update goes to the first matching handler (lines 335-349), in a new     *)
(* invocation; when the handler has returned (or raised), the invocation   *)
(* is dropped.                                                             *)
(***************************************************************************)
Dispatch(u, upd) ==
    /\ IF concurrent_updates THEN \E t \in TaskIds : Free(t)
       ELSE \A t \in TaskIds : Free(t)
    /\ SelectHandler(upd) # "none"
    /\ LET t == CHOOSE s \in TaskIds : Free(s) /\ \A r \in TaskIds : Free(r) => s <= r
       IN  Set(t, [IdleTask EXCEPT !.h = SelectHandler(upd), !.u = u,
                                   !.pc = "start", !.args = upd.args,
                                   !.text = upd.text, !.cb = upd.data])
    /\ UNCHANGED <<user_data, GENRE_MAP, job, searches, today, purevars>>

Return(t) ==
    /\ tasks[t].pc = "done"
    /\ Set(t, IdleTask)
    /\ UNCHANGED <<user_data, GENRE_MAP, job, searches, today, purevars>>

(***************************************************************************)
(* start, ayuda, cerrar_teclado, estrenos_menu_handler: one reply each.    *)
(***************************************************************************)
OneReply(t, h, ev) ==
    /\ tasks[t].h = h
    /\ tasks[t].pc = "start"
    /\ Set(t, [tasks[t] EXCEPT !.log = @ \o <<Ev(ev)>>, !.pc = "done"])
    /\ UNCHANGED <<user_data, GENRE_MAP, job, searches, today, purevars>>

start(t) == OneReply(t, "start", "reply_start")

ayuda(t) == OneReply(t, "ayuda", "reply_help")

cerrar_teclado(t) == OneReply(t, "cerrar_teclado", "reply_closed")

estrenos_menu_handler(t) == OneReply(t, "estrenos_menu_handler", "reply_menu")

(***************************************************************************)
(* populares_handler (136-148) and mejor_valoradas_handler (150-162).      *)
(***************************************************************************)
Listing(t, h, endpoint, params) ==
    /\ tasks[t].h = h
    /\ \/ /\ tasks[t].pc = "start"
          /\ Set(t, [tasks[t] EXCEPT !.log = @ \o <<Ev("reply_processing")>>,
                                     !.pc = "fetch"])
       \/ /\ tasks[t].pc = "fetch"
          /\ \E o \in Outcomes("results", MaxResults) :
               Set(t, ThenDeleted(Fetched(tasks[t], endpoint, params, o, "result")))
       \/ /\ tasks[t].pc = "result"
          /\ Set(t, Shown(tasks[t], ListLimit, "done"))
    /\ UNCHANGED <<user_data, GENRE_MAP, job, searches, today, purevars>>

populares_handler(t) == Listing(t, "populares_handler", "movie/popular", NoParams)

mejor_valoradas_handler(t) ==
    Listing(t, "mejor_valoradas_handler", "movie/top_rated", top_rated_params)

(***************************************************************************)
(* buscar_pelicula_command (164-169), buscar_pelicula_message_handler      *)
(* (171-177), solicitar_busqueda (179-182), _do_search_movie (185-199).    *)
(***************************************************************************)
buscar_pelicula_command(t) ==
    /\ tasks[t].h = "buscar_pelicula_command"
    /\ tasks[t].pc = "start"
    /\ IF tasks[t].args = <<>>
       THEN Set(t, [tasks[t] EXCEPT !.log = @ \o <<Ev("reply_usage")>>, !.pc = "done"])
       ELSE Set(t, [tasks[t] EXCEPT !.q = Join(tasks[t].args), !.pc = "search"])
    /\ UNCHANGED <<user_data, GENRE_MAP, job, searches, today, purevars>>

\* context.user_data.get('esperando_busqueda') is truthy
FlagSet(ud, u) == ud[u] = "True"

\* context.user_data['esperando_busqueda'] = False (line 175)
FlagLeftSet(ud, u) == ud

FlagCleared(ud, u) == [ud EXCEPT ![u] = "False"]

buscar_pelicula_message_handler(t) ==
    /\ tasks[t].h = "buscar_pelicula_message_handler"
    /\ \/ /\ tasks[t].pc = "start"
          /\ IF FlagSet(user_data, tasks[t].u)
             THEN /\ Set(t, [tasks[t] EXCEPT !.q = tasks[t].text, !.pc = "search"])
                  /\ searches' = [searches EXCEPT ![tasks[t].u] = Min(@ + 1, SearchCap)]
             ELSE /\ Set(t, [tasks[t] EXCEPT !.pc = "done"])
                  /\ UNCHANGED searches
          /\ UNCHANGED user_data
       \/ /\ tasks[t].pc = "clear"
          /\ user_data' = FlagCleared(user_data, tasks[t].u)
          /\ Set(t, [tasks[t] EXCEPT !.pc = "done"])
          /\ UNCHANGED searches
    /\ UNCHANGED <<GENRE_MAP, job, today, purevars>>

solicitar_busqueda(t) ==
    /\ tasks[t].h = "solicitar_busqueda"
    /\ tasks[t].pc = "start"
    /\ user_data' = [user_data EXCEPT ![tasks[t].u] = "True"]
    /\ searches' = [searches EXCEPT ![tasks[t].u] = 0]
    /\ Set(t, [tasks[t] EXCEPT !.log = @ \o <<Ev("reply_prompt")>>, !.pc = "done"])
    /\ UNCHANGED <<GENRE_MAP, job, today, purevars>>

do_search_movie(t) ==
    /\ tasks[t].h \in {"buscar_pelicula_command", "buscar_pelicula_message_handler"}
    /\ \/ /\ tasks[t].pc = "search"
          /\ Set(t, [tasks[t] EXCEPT !.log = @ \o <<Ev("reply_processing")>>,
                                     !.pc = "search_fetch"])
       \/ /\ tasks[t].pc = "search_fetch"
          /\ \E o \in Outcomes("results", MaxResults) :
               Set(t, ThenDeleted(Fetched(tasks[t], "search/movie",
                                          search_params(tasks[t].q), o,
                                          "search_result")))
       \/ /\ tasks[t].pc = "search_result"
          /\ Set(t, Shown(tasks[t], SearchLimit, ReturnPc(tasks[t].h)))
    /\ UNCHANGED <<user_data, GENRE_MAP, job, searches, today, purevars>>

(***************************************************************************)
(* handle_estrenos_callback (lines 212-258).                               *)
(***************************************************************************)
\* lines 253-258 when `query.effective_chat` can be read: the header and
\* the first five movies, or the fallback
EstrenosShown(task) ==
    LET list == DataAndGet(task.data, "results")
    IN  IF list # <<>>
        THEN [task EXCEPT !.log = @ \o <<Ev("bot_send_header")>>,
                          !.todo = FirstK(list, ListLimit), !.pc = "send_movie"]
        ELSE [task EXCEPT !.log = @ \o <<Ev("bot_send_fallback")>>, !.pc = "done"]

\* lines 249-251 in the order of the source, and with the two swapped
EstrenosFetchAfterDelete(task, params, o) ==
    Fetched([task EXCEPT !.log = @ \o <<Ev("delete_button")>>],
            "discover/movie", params, o, "result")

EstrenosFetch(task, params, o) == Fetched(task, "discover/movie", params, o, "delete")

handle_estrenos_callback(t) ==
    /\ tasks[t].h = "handle_estrenos_callback"
    /\ \/ /\ tasks[t].pc = "start"
          /\ Set(t, [tasks[t] EXCEPT !.log = @ \o <<Ev("answer")>>, !.pc = "edit"])
       \/ /\ tasks[t].pc = "edit"
          /\ Set(t, [tasks[t] EXCEPT !.log = @ \o <<Ev("edit_processing")>>,
                                     !.pc = "choice"])
       \/ /\ tasks[t].pc = "choice"
          /\ tasks[t].cb = estrenos_mes
          /\ \E o \in Outcomes("results", MaxResults) :
               Set(t, EstrenosFetch(tasks[t], estrenos_mes_params(today), o))
       \/ /\ tasks[t].pc = "choice"
          /\ tasks[t].cb # estrenos_mes
          /\ tasks[t].cb = estrenos_ano
          /\ \E o \in Outcomes("results", MaxResults) :
               Set(t, EstrenosFetch(tasks[t], estrenos_ano_params(today), o))
       \/ /\ tasks[t].pc = "choice"
          /\ tasks[t].cb \notin {estrenos_mes, estrenos_ano}
          /\ Set(t, [tasks[t] EXCEPT !.log = @ \o <<Ev("edit_invalid")>>, !.pc = "done"])
       \/ /\ tasks[t].pc = "delete"
          /\ Set(t, [tasks[t] EXCEPT !.log = @ \o <<Ev("delete_button")>>,
                                     !.pc = "result"])
       \/ /\ tasks[t].pc = "result"
          /\ IF HasEffectiveChat(UpdateOrQuery(tasks[t].h))
             THEN Set(t, EstrenosShown(tasks[t]))
             ELSE Set(t, Raised(tasks[t]))
    /\ UNCHANGED <<user_data, GENRE_MAP, job, searches, today, purevars>>

(***************************************************************************)
(* recomendar_menu_genero_handler (lines 261-284).                         *)
(***************************************************************************)
\* `not GENRE_MAP`, and the check left out
GenreCheckSkipped(gm) == FALSE

GenreMapEmpty(gm) == DOMAIN gm = {}

\* the buttons of the keyboard: the first twelve genres
GenresToShow(gm) == Min(Cardinality(DOMAIN gm), GenreLimit)

\* the rows of the keyboard: two buttons a row, a last row of one
KeyboardRows(n) == (n + RowLength - 1) \div RowLength

recomendar_menu_genero_handler(t) ==
    /\ tasks[t].h = "recomendar_menu_genero_handler"
    /\ tasks[t].pc = "start"
    /\ IF GenreMapEmpty(GENRE_MAP)
       THEN Set(t, [tasks[t] EXCEPT !.log = @ \o <<Ev("reply_unavailable")>>,
                                    !.pc = "done"])
       ELSE IF KeyboardRows(GenresToShow(GENRE_MAP)) = 0
       THEN Set(t, [tasks[t] EXCEPT !.log = @ \o <<Ev("reply_no_genres")>>,
                                    !.pc = "done"])
       ELSE Set(t, [tasks[t] EXCEPT
                      !.log = @ \o <<MEv("reply_keyboard", GenresToShow(GENRE_MAP))>>,
                      !.pc = "done"])
    /\ UNCHANGED <<user_data, GENRE_MAP, job, searches, today, purevars>>

(***************************************************************************)
(* handle_recomendar_callback (lines 286-317).                             *)
(***************************************************************************)
\* the elements random.choice may return
Elements(list) == {list[i] : i \in DOMAIN list}

handle_recomendar_callback(t) ==
    /\ tasks[t].h = "handle_recomendar_callback"
    /\ \/ /\ tasks[t].pc = "start"
          /\ Set(t, [tasks[t] EXCEPT !.log = @ \o <<Ev("answer")>>, !.pc = "parse"])
       \/ /\ tasks[t].pc = "parse"
          /\ IF IntParses(LastField(tasks[t].cb))
             THEN Set(t, [tasks[t] EXCEPT !.genre_id = IntValue(LastField(tasks[t].cb)),
                                          !.log = @ \o <<Ev("edit_processing")>>,
                                          !.pc = "fetch"])
             ELSE Set(t, [tasks[t] EXCEPT !.log = @ \o <<Ev("edit_error")>>,
                                          !.pc = "done"])
       \/ /\ tasks[t].pc = "fetch"
          /\ \E o \in Outcomes("results", MaxResults) :
               Set(t, Fetched(tasks[t], "discover/movie",
                              recom_params(tasks[t].genre_id), o, "delete"))
       \/ /\ tasks[t].pc = "delete"
          /\ Set(t, [tasks[t] EXCEPT !.log = @ \o <<Ev("delete_button")>>,
                                     !.pc = "result"])
       \/ /\ tasks[t].pc = "result"
          /\ DataAndGet(tasks[t].data, "results") # <<>>
          /\ \E m \in Elements(DataAndGet(tasks[t].data, "results")) :
               Set(t, [tasks[t] EXCEPT !.todo = <<m>>, !.pc = "send_movie"])
       \/ /\ tasks[t].pc = "result"
          /\ DataAndGet(tasks[t].data, "results") = <<>>
          /\ IF HasEffectiveChat(UpdateOrQuery(tasks[t].h))
             THEN Set(t, [tasks[t] EXCEPT !.log = @ \o <<Ev("bot_send_fallback")>>,
                                          !.pc = "done"])
             ELSE Set(t, Raised(tasks[t]))
    /\ UNCHANGED <<user_data, GENRE_MAP, job, searches, today, purevars>>

(***************************************************************************)
(* send_movie_with_poster (lines 50-88), for the next movie of the loop    *)
(* (or the one recommended movie).                                         *)
(***************************************************************************)
AfterMovie(task, evs) ==
    [task EXCEPT !.log = @ \o evs,
                 !.todo = Tail(@),
                 !.pc = IF Tail(task.todo) = <<>> THEN ReturnPc(task.h)
                        ELSE "send_movie"]

send_movie_with_poster(t) ==
    /\ tasks[t].pc = "send_movie"
    /\ tasks[t].todo # <<>>
    /\ LET m == Head(tasks[t].todo)
       IN  \/ /\ ~HasEffectiveChat(UpdateOrQuery(tasks[t].h))
              /\ Set(t, Raised(tasks[t]))
           \/ /\ HasEffectiveChat(UpdateOrQuery(tasks[t].h))
              /\ HasPoster(m)
              /\ Set(t, AfterMovie(tasks[t], <<MEv("send_photo", m)>>))
           \/ /\ HasEffectiveChat(UpdateOrQuery(tasks[t].h))
              /\ HasPoster(m)
              /\ Set(t, AfterMovie(tasks[t], <<MEv("photo_error", m),
                                               MEv("send_message", m)>>))
           \/ /\ HasEffectiveChat(UpdateOrQuery(tasks[t].h))
              /\ ~HasPoster(m)
              /\ Set(t, AfterMovie(tasks[t], <<MEv("send_message", m)>>))
    /\ UNCHANGED <<user_data, GENRE_MAP, job, searches, today, purevars>>

(***************************************************************************)
(* The bot.                                                                *)
(***************************************************************************)
Next ==
    \/ LoadGenres
    \/ \E u \in Users, upd \in Updates : Dispatch(u, upd)
    \/ \E t \in TaskIds : Return(t)
    \/ \E t \in TaskIds : start(t)
    \/ \E t \in TaskIds : ayuda(t)
    \/ \E t \in TaskIds : cerrar_teclado(t)
    \/ \E t \in TaskIds : populares_handler(t)
    \/ \E t \in TaskIds : mejor_valoradas_handler(t)
    \/ \E t \in TaskIds : buscar_pelicula_command(t)
    \/ \E t \in TaskIds : buscar_pelicula_message_handler(t)
    \/ \E t \in TaskIds : solicitar_busqueda(t)
    \/ \E t \in TaskIds : do_search_movie(t)
    \/ \E t \in TaskIds : estrenos_menu_handler(t)
    \/ \E t \in TaskIds : handle_estrenos_callback(t)
    \/ \E t \in TaskIds : recomendar_menu_genero_handler(t)
    \/ \E t \in TaskIds : handle_recomendar_callback(t)
    \/ \E t \in TaskIds : send_movie_with_poster(t)

Spec == Init /\ [][Next]_vars

(***************************************************************************)
(* escape_markdown_v2 applied to every string of up to MaxLen characters   *)
(* over a small alphabet: a letter, three reserved characters and the      *)
(* backslash.                                                              *)
(***************************************************************************)
EscapeAlphabet == {"a", "_", ".", "!", "\\"}

Strings(n) == UNION {[1..k -> EscapeAlphabet] : k \in 0..n}

BotIdle ==
    /\ user_data = [u \in Users |-> "absent"]
    /\ GENRE_MAP = <<>>
    /\ job = "none"
    /\ tasks = [t \in TaskIds |-> IdleTask]
    /\ searches = [u \in Users |-> 0]
    /\ today = [year |-> 2024, month |-> 2, day |-> 15]

InitEscape ==
    /\ BotIdle
    /\ pure_pc = "escape"
    /\ esc_in \in Strings(MaxLen)
    /\ esc_out = <<>>
    /\ date_in = [year |-> 2024, month |-> 2, day |-> 15]
    /\ date_out = NoParams

Escape ==
    /\ pure_pc = "escape"
    /\ esc_out' = escape_markdown_v2(esc_in)
    /\ pure_pc' = "escaped"
    /\ UNCHANGED <<botvars, esc_in, date_in, date_out>>

SpecEscape == InitEscape /\ [][Escape]_vars

(***************************************************************************)
(* The 'estrenos_mes' range for every day of four years: a leap year, a    *)
(* common year and the century years 2000 (leap) and 2100 (common).        *)
(***************************************************************************)
Years == {2000, 2023, 2024, 2100}

Dates ==
    {d \in [year : Years, month : 1..12, day : 1..31] :
        d.day <= DaysInMonth(d.year, d.month)}

InitDate ==
    /\ BotIdle
    /\ pure_pc = "range"
    /\ date_in \in Dates
    /\ date_out = NoParams
    /\ esc_in = <<>>
    /\ esc_out = <<>>

EstrenosMesRange ==
    /\ pure_pc = "range"
    /\ date_out' = estrenos_mes_params(date_in)
    /\ pure_pc' = "ranged"
    /\ UNCHANGED <<botvars, esc_in, esc_out, date_in>>

SpecDate == InitDate /\ [][EstrenosMesRange]_vars

(***************************************************************************)
(* The claims.                                                             *)
(***************************************************************************)
MsgHandler == "buscar_pelicula_message_handler"

FetchHandlers ==
    {"populares_handler", "mejor_valoradas_handler", "buscar_pelicula_command",
     "buscar_pelicula_message_handler", "handle_estrenos_callback",
     "handle_recomendar_callback"}

IndicatorRemovals == {"delete_processing", "delete_button"}

MovieEvents == {"send_photo", "send_message"}

\* C1: in every handler that fetches, a finished invocation whose fetch
\* failed or came back empty has sent exactly one fallback message and no
\* movie message, and has removed its processing indicator.
C1_FallbackOnFailedFetch ==
    \A t \in TaskIds :
        (/\ tasks[t].h \in FetchHandlers
         /\ tasks[t].pc = "done"
         /\ Count(tasks[t].log, {"fetch"}) = 1
         /\ DataAndGet(tasks[t].data, "results") = <<>>)
        => /\ Count(tasks[t].log, FallbackEvents) = 1
           /\ Count(tasks[t].log, MovieEvents) = 0
           /\ Count(tasks[t].log, IndicatorRemovals) = 1

\* C2: a text message that reaches buscar_pelicula_message_handler while
\* the user's flag is not set ends the handler with no outbound message
\* and no fetch; while the flag is set it starts a search whose query is the
\* message text, and when that handler has finished its search the flag is
\* False (so that the next message falls under the first case).
C2_ConversationalSearch ==
    [][\A t \in TaskIds :
        LET k == tasks[t]
            n == tasks'[t]
        IN  /\ (k.h = MsgHandler /\ k.pc = "start" /\ n.pc # "start"
                    /\ user_data[k.u] # "True")
               => (n.pc = "done" /\ n.log = <<>> /\ n.outcome = "none"
                    /\ n.endpoint = "")
            /\ (k.h = MsgHandler /\ k.pc = "start" /\ n.pc # "start"
                    /\ user_data[k.u] = "True")
               => (n.pc = "search" /\ n.q = k.text)
            /\ (k.h = MsgHandler /\ k.pc # "done" /\ n.pc = "done"
                    /\ Count(n.log, {"fetch"}) > 0)
               => (user_data'[k.u] = "False" /\ n.endpoint = "search/movie"
                    /\ n.params.query = k.text)]_vars

C2_Witness ==
    \E t \in TaskIds :
        /\ tasks[t].h = MsgHandler
        /\ tasks[t].pc = "done"
        /\ Count(tasks[t].log, {"fetch"}) = 1
        /\ user_data[tasks[t].u] = "False"

\* C3: a fetch that met a transport failure (timeout, connection error,
\* non-2xx status, malformed body) did not raise: it logged the error and
\* handed the empty dict to the handler.
C3_FetchNeverRaises ==
    \A t \in TaskIds :
        tasks[t].outcome \in TransportFailures
        => /\ tasks[t].data = EmptyDict
           /\ \E i \in DOMAIN tasks[t].log :
                /\ tasks[t].log[i].ev = "fetch"
                /\ i < Len(tasks[t].log)
                /\ tasks[t].log[i + 1].ev = "log_error"

C3_Witness ==
    \E t \in TaskIds :
        /\ tasks[t].outcome = "JSONDecodeError"
        /\ Count(tasks[t].log, {"log_error"}) = 1
        /\ tasks[t].pc = "done"

\* C4: after one solicitar_busqueda at most one text-message invocation of
\* the user consumes the flag and searches, whatever the steps at which the
\* invocations suspend.
C4_FlagConsumedOnce == \A u \in Users : searches[u] <= 1

C4_Witness ==
    \E t \in TaskIds :
        /\ tasks[t].h = MsgHandler
        /\ tasks[t].pc = "done"
        /\ tasks[t].log = <<>>
        /\ searches[tasks[t].u] = 1
        /\ user_data[tasks[t].u] = "False"

\* C5: a finished invocation whose fetch returned n > 0 results has
\* delivered exactly the first min(n, k) movies, in order, one message each
\* (k = 5 for the listings and the releases, 3 for the searches); the
\* recommendation has delivered exactly one movie, one of the results.
C5_MoviesDelivered ==
    \A t \in TaskIds :
        LET k == tasks[t]
            list == DataAndGet(k.data, "results")
        IN  (k.h \in FetchHandlers /\ k.pc = "done" /\ list # <<>>)
            => IF k.h = "handle_recomendar_callback"
               THEN /\ Len(Delivered(k.log)) = 1
                    /\ \E i \in DOMAIN list : Delivered(k.log) = <<list[i]>>
               ELSE IF k.h \in {"buscar_pelicula_command", MsgHandler}
               THEN Delivered(k.log) = SubSeq(list, 1, Min(3, Len(list)))
               ELSE Delivered(k.log) = SubSeq(list, 1, Min(5, Len(list)))

\* C6: in the result of escape_markdown_v2 the i-th character of the input
\* stands at position i + (number of reserved characters among the first
\* i), a backslash stands right before it when it is reserved, and nothing
\* else is in the result: one marker per reserved character, all other
\* characters (backslashes too) in their order and number.
Reserved ==
    {"_", "*", "[", "]", "(", ")", "~", "backquote", ">", "#", "+", "-", "=", "|",
     "{", "}", ".", "!"}

ReservedUpTo(s, i) == Cardinality({j \in 1..i : s[j] \in Reserved})

C6_EscapeOneMarkerEach ==
    pure_pc = "escaped"
    => /\ Len(esc_out) = Len(esc_in) + ReservedUpTo(esc_in, Len(esc_in))
       /\ \A i \in DOMAIN esc_in :
            LET p == i + ReservedUpTo(esc_in, i)
            IN  /\ esc_out[p] = esc_in[i]
                /\ esc_in[i] \in Reserved => esc_out[p - 1] = "\\"

C6_Witness ==
    /\ pure_pc = "escaped"
    /\ esc_in = <<"\\", "_", ".">>
    /\ esc_out = <<"\\", "\\", "_", "\\", ".">>

\* C7: for every current date the 'estrenos_mes' range runs from the first
\* to the last day of the current month (2024-02-15 gives 2024-02-01 to
\* 2024-02-29).
MonthLength(y, m) ==
    CASE m \in {1, 3, 5, 7, 8, 10, 12} -> 31
      [] m \in {4, 6, 9, 11} -> 30
      [] m = 2 /\ y \in {2000, 2024} -> 29
      [] OTHER -> 28

C7_MonthRange ==
    pure_pc = "ranged"
    => /\ date_out.gte =
            strftime([year |-> date_in.year, month |-> date_in.month, day |-> 1])
       /\ date_out.lte =
            strftime([year |-> date_in.year, month |-> date_in.month,
                      day |-> MonthLength(date_in.year, date_in.month)])
       /\ date_in = [year |-> 2024, month |-> 2, day |-> 15]
            => (date_out.gte = "2024-02-01" /\ date_out.lte = "2024-02-29")

C7_Witness ==
    /\ pure_pc = "ranged"
    /\ date_in = [year |-> 2023, month |-> 12, day |-> 31]
    /\ date_out.gte = "2023-12-01"
    /\ date_out.lte = "2023-12-31"

\* C8: while load_genres has not loaded anything (not run, or run on a
\* failed or empty fetch) the genre map is empty, and whenever the map is
\* empty a finished recomendar_menu_genero_handler has sent the one
\* 'unavailable' message and nothing else.
C8_GenresUnavailable ==
    /\ job # "loaded" => DOMAIN GENRE_MAP = {}
    /\ \A t \in TaskIds :
         (/\ tasks[t].h = "recomendar_menu_genero_handler"
          /\ tasks[t].pc = "done"
          /\ DOMAIN GENRE_MAP = {})
         => tasks[t].log = <<Ev("reply_unavailable")>>

C8_Witness ==
    /\ job = "failed"
    /\ \E t \in TaskIds :
         /\ tasks[t].h = "recomendar_menu_genero_handler"
         /\ tasks[t].pc = "done"
         /\ tasks[t].log = <<Ev("reply_unavailable")>>

\* C9: in the log of a callback handler every fetch comes after the
\* answer, the deletion of the button message comes after the fetch, every
\* result or fallback message comes after the deletion, and an invocation
\* that has fetched and moved on has deleted the button message.
ResultEvents ==
    {"bot_send_header", "bot_send_fallback", "send_photo", "send_message",
     "photo_error"}

Before(log, A, B) ==
    \A j \in Positions(log, B) : \E i \in Positions(log, A) : i < j

C9_CallbackOrder ==
    \A t \in TaskIds :
        tasks[t].h \in CallbackHandlers
        => /\ Before(tasks[t].log, {"answer"}, {"fetch"})
           /\ Before(tasks[t].log, {"fetch"}, {"delete_button"})
           /\ Before(tasks[t].log, {"delete_button"}, ResultEvents)
           /\ (Count(tasks[t].log, {"fetch"}) = 1 /\ tasks[t].pc = "done")
                => Count(tasks[t].log, {"delete_button"}) = 1

C9_Witness ==
    \E t \in TaskIds :
        /\ tasks[t].h = "handle_estrenos_callback"
        /\ tasks[t].pc = "done"
        /\ Count(tasks[t].log, {"answer"}) = 1
        /\ Count(tasks[t].log, {"fetch"}) = 1
        /\ Count(tasks[t].log, {"delete_button"}) = 1

\* C10: a recommendation callback whose payload does not end in an integer
\* fetches nothing, sends no movie and does not delete the button message;
\* when it has finished it has answered the callback and replaced the
\* button message with the error text, nothing else.
UnparseablePayloads ==
    {PrefixRecom \o s : s \in {<<>>, <<"a">>, <<"1", "a">>, <<"x", "_">>}}

C10_UnparseableGenre ==
    \A t \in TaskIds :
        (tasks[t].h = "handle_recomendar_callback"
            /\ tasks[t].cb \in UnparseablePayloads)
        => /\ Count(tasks[t].log, {"fetch", "delete_button"} \cup MovieEvents) = 0
           /\ tasks[t].pc \in {"start", "parse", "done"}
           /\ tasks[t].pc = "done"
                => tasks[t].log = <<Ev("answer"), Ev("edit_error")>>

C10_Witness ==
    \E t \in TaskIds :
        /\ tasks[t].h = "handle_recomendar_callback"
        /\ tasks[t].cb = PrefixRecom \o <<"1", "a">>
        /\ tasks[t].pc = "done"
        /\ tasks[t].log = <<Ev("answer"), Ev("edit_error")>>

====
